---- MODULE Spec2Model ----
(***************************************************************************)
(* A model of setup.go, the Go implementation of the Windows development   *)
(* environment bootstrap: the ordered step pipeline of main, the package   *)
(* installers, the config deployer (fingerprint comparison, timestamped    *)
(* backups) and the failure log.                                           *)
(*                                                                         *)
(* The machine the program runs on (the file system, the package          *)
(* databases, the persisted search path, the wall clock, the outcome of    *)
(* every external command and file operation) is the environment: its      *)
(* state is part of the model's state and its answers are drawn from       *)
(* small sets.                                                             *)
(***************************************************************************)
EXTENDS Integers, Sequences, FiniteSets, TLC

VARIABLES
    pc,         \* position of the process in main ("off" when no process runs)
    cur,        \* index of the deployConfigFile call of main being made
    exitCode,   \* exit status of the last process: -1 while none has ended
    failures,   \* the global failure log (var failures []string)
    out,        \* the tagged report lines printed by the running process
    trace,      \* the commands and file operations of the process, with results
    envPath,    \* the commands the process's PATH resolves (cached per process)
    files,      \* the file system: path -> content, for the files that exist
    dirs,       \* the file system: the directories that exist
    persisted,  \* the commands the persisted Machine and User Path resolve
    pkgs,       \* the packages winget and scoop list as installed
    buckets,    \* the scoop buckets registered
    gitcfg,     \* git's global configuration: key -> value ("" when unset)
    faults,     \* the operations the environment has failed so far
    now,        \* the wall clock, in seconds
    run,        \* the number of processes started
    snap        \* what the process before the current one left behind

vars == <<pc, cur, exitCode, failures, out, trace, envPath, files, dirs, persisted,
          pkgs, buckets, gitcfg, faults, now, run, snap>>

----------------------------------------------------------------------------
(* Bounds of the model. *)

\* The last second of the wall clock.
MaxSec == 1

\* The most operations (commands, file operations) the environment fails.
MaxFaults == 1

\* The most processes started one after the other.
MaxRuns == 2

\* The longest text extractVersion is given, the listed examples apart.
MaxLen == 4

\* The file contents the environment chooses from ("" is the empty file).
Contents == {"", "X", "Y"}

\* The deployConfigFile calls of main that the deployer is observed at.
ObservedPairs == {1, 2}

----------------------------------------------------------------------------
(* Paths are sequences of components; filepath.Join concatenates them and  *)
(* filepath.Dir drops the last one.                                        *)

Join(a, b) == a \o b

Dir(p) == SubSeq(p, 1, Len(p) - 1)

Base(p) == p[Len(p)]

\* The text of a path, components separated by the Windows separator.
RECURSIVE PathStr(_)
PathStr(p) ==
    IF Len(p) = 0 THEN ""
    ELSE IF Len(p) = 1 THEN p[1]
    ELSE PathStr(Dir(p)) \o "\\" \o Base(p)

\* p + suffix: string concatenation onto the text of the path.
Suffixed(p, suffix) == Join(Dir(p), <<Base(p) \o suffix>>)

\* The directory and every ancestor of it (what os.MkdirAll makes exist).
Ancestors(d) == {SubSeq(d, 1, n) : n \in 1..Len(d)}

\* The environment of the process (os.Executable, os.Getenv).
scriptRoot == <<"C:", "setup">>
userProfile == <<"C:", "Users", "dev">>
appData == <<"C:", "Users", "dev", "AppData", "Roaming">>
localAppData == <<"C:", "Users", "dev", "AppData", "Local">>

\* The four deployConfigFile calls of main, in order.
DeployPairs == <<
    [srcRel |-> <<"configs", "wezterm", ".wezterm.lua">>,
     target |-> Join(userProfile, <<".wezterm.lua">>)],
    [srcRel |-> <<"configs", "nushell", "config.nu">>,
     target |-> Join(appData, <<"nushell", "config.nu">>)],
    [srcRel |-> <<"configs", "nushell", "env.nu">>,
     target |-> Join(appData, <<"nushell", "env.nu">>)],
    [srcRel |-> <<"configs", "starship", "starship.toml">>,
     target |-> Join(userProfile, <<".config", "starship.toml">>)] >>

----------------------------------------------------------------------------
(* The state a function of the program works on: the process's globals and *)
(* the file system.  The operators below take it and return it updated.    *)

World == [failures |-> failures, out |-> out, trace |-> trace, path |-> envPath,
          files |-> files, dirs |-> dirs, persisted |-> persisted, pkgs |-> pkgs,
          buckets |-> buckets, gitcfg |-> gitcfg, faults |-> faults]

\* The environment fails one operation.
Fault(w) == [w EXCEPT !.faults = @ + 1]

writeSuccess(w, msg) == [w EXCEPT !.out = Append(@, <<"OK", msg>>)]

writeSkip(w, msg) == [w EXCEPT !.out = Append(@, <<"SKIP", msg>>)]

\* writeFail printing the line and forgetting the log.
writeFail_NotLogged(w, msg) == [w EXCEPT !.out = Append(@, <<"FAIL", msg>>)]

writeFail(w, msg) ==
    [w EXCEPT !.out = Append(@, <<"FAIL", msg>>),
              !.failures = Append(@, msg)]

\* fmt.Printf of an informational line.
printInfo(w, msg) == [w EXCEPT !.out = Append(@, <<"INFO", msg>>)]

\* The process has made a system call or run a command: what, how it ended
\* ("ok" or "error"), and on which path or with which arguments.
Did(w, op, res, args) == [w EXCEPT !.trace = Append(@, <<op, res>> \o args)]

\* The member of a set of one. Only({F(v) : v \in {x}}) is F(x), with x
\* worked out once however often F reads it.
Only(S) == CHOOSE r \in S : TRUE

----------------------------------------------------------------------------
(* Files. *)

Exists(w, p) == p \in DOMAIN w.files

\* The file system with content c at path p.
WithFile(fs, p, c) ==
    [q \in DOMAIN fs \cup {p} |-> IF q = p THEN c ELSE fs[q]]

\* SHA-256 as a collision-free digest, printed in hex.
Sha256Hex(c) == "sha256:" \o c

\* What a file operation may meet: the environment's answer to one call.
\*   "ok"      every system call succeeds
\*   "open"    os.Open fails
\*   "create"  os.Create fails
\*   "copy"    io.Copy fails after writing the first k bytes
IoKinds == {"ok", "open", "create", "copy"}

\* fileHash: the digest of the file, or an error.
fileHash(w, file, io) ==
    Only({
        IF ~Exists(v, file)
            THEN [w |-> Did(v, "fileHash", "error", file), sum |-> "", err |-> "open"]
        ELSE IF io = "open"
            THEN [w |-> Did(Fault(v), "fileHash", "error", file), sum |-> "", err |-> "open"]
        ELSE IF io = "copy"
            THEN [w |-> Did(Fault(v), "fileHash", "error", file), sum |-> "", err |-> "read"]
        ELSE [w |-> Did(v, "fileHash", "ok", file),
              sum |-> Sha256Hex(v.files[file]), err |-> ""] : v \in {w}})

Min(a, b) == IF a < b THEN a ELSE b

\* copyFile dropping io.Copy's error: a short copy is reported as done.
copyFile_DropsCopyError(w, src, dst, io, k) ==
    IF ~Exists(w, src) THEN [w |-> w, err |-> "open " \o PathStr(src)]
    ELSE IF io = "open" THEN [w |-> Fault(w), err |-> "open " \o PathStr(src)]
    ELSE IF Dir(dst) \notin w.dirs THEN [w |-> w, err |-> "create " \o PathStr(dst)]
    ELSE IF io = "create" THEN [w |-> Fault(w), err |-> "create " \o PathStr(dst)]
    ELSE LET data == w.files[src]
             n == IF io = "copy" THEN Min(k, Len(data)) ELSE Len(data)
             w1 == [w EXCEPT !.files = WithFile(@, dst, SubSeq(data, 1, n))]
         IN IF io = "copy" THEN [w |-> Did(Fault(w1), "copyFile", "ok", dst), err |-> ""]
            ELSE [w |-> Did(w1, "copyFile", "ok", dst), err |-> ""]

\* copyFile: os.Open(src), os.Create(dst) (which truncates), io.Copy.
copyFile(w, src, dst, io, k) ==
    Only({
        IF ~Exists(v, src) THEN [w |-> v, err |-> "open " \o PathStr(src)]
        ELSE IF io = "open" THEN [w |-> Fault(v), err |-> "open " \o PathStr(src)]
        ELSE IF Dir(dst) \notin v.dirs THEN [w |-> v, err |-> "create " \o PathStr(dst)]
        ELSE IF io = "create" THEN [w |-> Fault(v), err |-> "create " \o PathStr(dst)]
        \* from here on dst exists: os.Create has made or truncated it
        ELSE LET data == v.files[src]
                 n == IF io = "copy" THEN Min(k, Len(data)) ELSE Len(data)
                 written == SubSeq(data, 1, n)
                 w1 == [v EXCEPT !.files = WithFile(@, dst, written)]
             IN IF io = "copy"
                    THEN [w |-> Did(Fault(w1), "copyFile", "error", dst),
                          err |-> "copy " \o PathStr(dst)]
                ELSE [w |-> Did(w1, "copyFile", "ok", dst), err |-> ""] : v \in {w}})

\* time.Now().Format("20060102-150405"): the wall clock to the second.
Pad2(n) == IF n < 10 THEN "0" \o ToString(n) ELSE ToString(n)

FormatTimestamp(t) == "20260101-0000" \o Pad2(t)

\* The answers of the environment to one deployConfigFile call: whether
\* os.MkdirAll succeeds, what the two fileHash calls and the two copyFile calls
\* meet, and how many bytes a failing io.Copy has written.
AllDeployIo ==
    [mkdir : BOOLEAN, hsrc : {"ok", "open", "copy"}, htgt : {"ok", "open", "copy"},
     bak : IoKinds, cp : IoKinds, k : 0..1]

\* The operations an answer fails.
FaultCount(io) ==
    (IF io.mkdir THEN 0 ELSE 1) + (IF io.hsrc = "ok" THEN 0 ELSE 1)
    + (IF io.htgt = "ok" THEN 0 ELSE 1) + (IF io.bak = "ok" THEN 0 ELSE 1)
    + (IF io.cp = "ok" THEN 0 ELSE 1)

\* The answers that fail at most n operations (k is read by a failing copy only).
DeployIo(n) ==
    {io \in AllDeployIo :
        /\ FaultCount(io) <= n
        /\ io.k = 0 \/ io.bak = "copy" \/ io.cp = "copy"}

\* deployExisting backing up the source instead of the target.
deployExisting_BacksUpSource(w, srcRel, sourcePath, target, io, t) ==
    LET hs == fileHash(w, sourcePath, io.hsrc)
        ht == fileHash(hs.w, target, io.htgt)
        backupPath == Suffixed(target, ".bak." \o FormatTimestamp(t))
        b == copyFile(ht.w, sourcePath, backupPath, io.bak, io.k)
        w1 == printInfo(b.w, "Backed up existing file to " \o PathStr(backupPath))
        c == copyFile(w1, sourcePath, target, io.cp, io.k)
    IN IF hs.err = "" /\ ht.err = "" /\ hs.sum = ht.sum
           THEN writeSkip(ht.w, PathStr(target) \o " is up to date")
       ELSE IF c.err # ""
           THEN writeFail(c.w, "Failed to deploy " \o PathStr(srcRel) \o ": " \o c.err)
       ELSE writeSuccess(c.w, "Deployed " \o PathStr(srcRel) \o " -> " \o PathStr(target))

\* deployExisting replacing the target whether or not the fingerprints match.
deployExisting_NeverUpToDate(w, srcRel, sourcePath, target, io, t) ==
    LET backupPath == Suffixed(target, ".bak." \o FormatTimestamp(t))
        b == copyFile(w, target, backupPath, io.bak, io.k)
        w1 == printInfo(b.w, "Backed up existing file to " \o PathStr(backupPath))
        c == copyFile(w1, sourcePath, target, io.cp, io.k)
    IN IF c.err # ""
           THEN writeFail(c.w, "Failed to deploy " \o PathStr(srcRel) \o ": " \o c.err)
       ELSE writeSuccess(c.w, "Deployed " \o PathStr(srcRel) \o " -> " \o PathStr(target))

\* The part of deployConfigFile for a target that exists (lines 173-185),
\* then the copy (lines 187-191).
deployExisting(w, srcRel, sourcePath, target, io, t) ==
    LET hs == fileHash(w, sourcePath, io.hsrc)
        ht == fileHash(hs.w, target, io.htgt)
        backupPath == Suffixed(target, ".bak." \o FormatTimestamp(t))
        b == copyFile(ht.w, target, backupPath, io.bak, io.k)
        w1 == printInfo(b.w, "Backed up existing file to " \o PathStr(backupPath))
        c == copyFile(w1, sourcePath, target, io.cp, io.k)
    IN IF hs.err = "" /\ ht.err = "" /\ hs.sum = ht.sum
           THEN writeSkip(ht.w, PathStr(target) \o " is up to date")
       ELSE IF c.err # ""
           THEN writeFail(c.w, "Failed to deploy " \o PathStr(srcRel) \o ": " \o c.err)
       ELSE writeSuccess(c.w, "Deployed " \o PathStr(srcRel) \o " -> " \o PathStr(target))

\* os.MkdirAll: nothing to do for a directory that exists; otherwise the
\* directory and its missing ancestors are made, or the call fails.
MkdirAll(w, dir, ok) ==
    Only({
        IF dir \in v.dirs THEN [w |-> v, err |-> ""]
        ELSE IF ~ok THEN [w |-> Fault(v), err |-> "mkdir " \o PathStr(dir)]
        ELSE [w |-> Did([v EXCEPT !.dirs = @ \cup Ancestors(dir)], "os.MkdirAll", "ok", dir),
              err |-> ""] : v \in {w}})

\* deployConfigFile making the target's directory before it looks for the
\* source.
deployConfigFile_MkdirFirst(w, srcRel, target, io, t) ==
    LET sourcePath == Join(scriptRoot, srcRel)
        targetDir == Dir(target)
        m == MkdirAll(w, targetDir, io.mkdir)
        w1 == m.w
        c == copyFile(w1, sourcePath, target, io.cp, io.k)
    IN IF m.err # ""
           THEN writeFail(w1, "Failed to create directory: " \o PathStr(targetDir))
       ELSE IF ~Exists(w1, sourcePath)
           THEN writeFail(w1, "Source config not found: " \o PathStr(srcRel))
       ELSE IF Exists(w1, target)
           THEN deployExisting(w1, srcRel, sourcePath, target, io, t)
       ELSE IF c.err # ""
           THEN writeFail(c.w, "Failed to deploy " \o PathStr(srcRel) \o ": " \o c.err)
       ELSE writeSuccess(c.w, "Deployed " \o PathStr(srcRel) \o " -> " \o PathStr(target))

deployConfigFile(w, srcRel, target, io, t) ==
    LET sourcePath == Join(scriptRoot, srcRel)
        targetDir == Dir(target)
        m == MkdirAll(w, targetDir, io.mkdir)
        w1 == m.w
        c == copyFile(w1, sourcePath, target, io.cp, io.k)
    IN IF ~Exists(w, sourcePath)
           THEN writeFail(w, "Source config not found: " \o PathStr(srcRel))
       ELSE IF m.err # ""
           THEN writeFail(w1, "Failed to create directory: " \o PathStr(targetDir))
       ELSE IF Exists(w1, target)
           THEN deployExisting(w1, srcRel, sourcePath, target, io, t)
       ELSE IF c.err # ""
           THEN writeFail(c.w, "Failed to deploy " \o PathStr(srcRel) \o ": " \o c.err)
       ELSE writeSuccess(c.w, "Deployed " \o PathStr(srcRel) \o " -> " \o PathStr(target))

----------------------------------------------------------------------------
(* Commands: the search path, the package managers, the installers.        *)

writeStep(w, msg) == [w EXCEPT !.out = Append(@, <<"STEP", msg>>)]

\* strings.Contains.
Contains(s, sub) ==
    \E i \in 1..(Len(s) - Len(sub) + 1) : SubSeq(s, i, i + Len(sub) - 1) = sub

\* exec.LookPath against the process's PATH.
commandExists(w, name) == name \in w.path

\* The command each package puts on the persisted Path once installed.
CommandOf(id) ==
    CASE id = "Git.Git" -> "git"
      [] id = "zig.zig" -> "zig"
      [] id = "BurntSushi.ripgrep.MSVC" -> "rg"
      [] id = "sharkdp.fd" -> "fd"
      [] id = "Volta.Volta" -> "volta"
      [] id = "Nushell.Nushell" -> "nu"
      [] id = "Starship.Starship" -> "starship"
      [] id = "wez.wezterm" -> "wezterm"
      [] id = "Neovim.Neovim" -> "nvim"
      [] OTHER -> ""

\* The lines of a listing, one per package, in some order.
RECURSIVE Lines(_)
Lines(S) ==
    IF S = {} THEN ""
    ELSE LET x == CHOOSE y \in S : TRUE IN x \o "\n" \o Lines(S \ {x})

\* What "winget list --id <id>" prints: the installed packages whose id
\* matches, or that none does.
WingetListOutput(w, id) ==
    LET found == {q \in w.pkgs : Contains(q, id)}
    IN IF found = {} THEN "No installed package found matching input criteria."
       ELSE "Name Id Version\n" \o Lines(found)

\* What "scoop list" prints: every installed app.
ScoopListOutput(w) == "Installed apps:\n" \o Lines(w.pkgs)

\* What "scoop bucket list" prints.
ScoopBucketListOutput(w) == "Name Source\n" \o Lines(w.buckets)

\* refreshPath: PATH becomes the persisted Machine and User Path, unless the
\* powershell that reads them fails.
refreshPath(w, ok) ==
    Only({
        IF ~ok THEN Did(Fault(v), "powershell", "error", <<"GetEnvironmentVariable">>)
        ELSE Did([v EXCEPT !.path = v.persisted], "powershell", "ok", <<"GetEnvironmentVariable">>) : v \in {w}})

\* The answers of the environment to one installer call: whether the listing
\* command, the bucket registration, the install command and refreshPath's
\* powershell succeed.
InstallIo == [list : BOOLEAN, bucket : BOOLEAN, install : BOOLEAN, ps : BOOLEAN]

InstallFaults(io) ==
    (IF io.list THEN 0 ELSE 1) + (IF io.bucket THEN 0 ELSE 1)
    + (IF io.install THEN 0 ELSE 1) + (IF io.ps THEN 0 ELSE 1)

\* runCmd("winget", "list", ...): the output, "" when the command fails.
wingetList(w, packageID, ok) ==
    Only({
        LET args == <<"list", "--id", packageID, "--accept-source-agreements">>
        IN IF ~commandExists(v, "winget") THEN [w |-> Did(v, "winget", "error", args), out |-> ""]
           ELSE IF ~ok THEN [w |-> Did(Fault(v), "winget", "error", args), out |-> ""]
           ELSE [w |-> Did(v, "winget", "ok", args), out |-> WingetListOutput(v, packageID)] : v \in {w}})

\* runCmdPassthrough("winget", "install", ...).
wingetInstall(w, packageID, ok) ==
    Only({
        LET args == <<"install", "--id", packageID, "--exact", "--accept-source-agreements",
                      "--accept-package-agreements", "--silent">>
        IN IF ~commandExists(v, "winget") THEN [w |-> Did(v, "winget", "error", args), err |-> TRUE]
           ELSE IF ~ok THEN [w |-> Did(Fault(v), "winget", "error", args), err |-> TRUE]
           ELSE [w |-> Did([v EXCEPT !.pkgs = @ \cup {packageID},
                                     !.persisted = @ \cup {CommandOf(packageID)}],
                           "winget", "ok", args),
                 err |-> FALSE] : v \in {w}})

\* installWingetPackage installing without a look at the listing.
installWingetPackage_IgnoresListing(w, packageID, displayName, io) ==
    LET l == wingetList(w, packageID, io.list)
        i == wingetInstall(printInfo(l.w, "Installing " \o displayName \o "..."),
                           packageID, io.install)
    IN IF i.err
           THEN writeFail(i.w, "Failed to install " \o displayName
                               \o " (" \o packageID \o ")")
       ELSE writeSuccess(refreshPath(i.w, io.ps), displayName \o " installed")

installWingetPackage(w, packageID, displayName, io) ==
    LET l == wingetList(w, packageID, io.list)
        i == wingetInstall(printInfo(l.w, "Installing " \o displayName \o "..."),
                           packageID, io.install)
    IN IF Contains(l.out, packageID)
           THEN writeSkip(l.w, displayName \o " already installed")
       ELSE IF i.err
           THEN writeFail(i.w, "Failed to install " \o displayName
                               \o " (" \o packageID \o ")")
       ELSE writeSuccess(refreshPath(i.w, io.ps), displayName \o " installed")

\* runCmd("scoop", ...) for the two listings.
scoopList(w, args, text, ok) ==
    Only({
        IF ~commandExists(v, "scoop") THEN [w |-> Did(v, "scoop", "error", args), out |-> ""]
        ELSE IF ~ok THEN [w |-> Did(Fault(v), "scoop", "error", args), out |-> ""]
        ELSE [w |-> Did(v, "scoop", "ok", args), out |-> text] : v \in {w}})

\* runCmd("scoop", "bucket", "add", bucket): its result is not looked at.
scoopBucketAdd(w, bucket, ok) ==
    Only({
        LET args == <<"bucket", "add", bucket>>
        IN IF ~commandExists(v, "scoop") THEN Did(v, "scoop", "error", args)
           ELSE IF ~ok THEN Did(Fault(v), "scoop", "error", args)
           ELSE Did([v EXCEPT !.buckets = @ \cup {bucket}], "scoop", "ok", args) : v \in {w}})

\* runCmdPassthrough("scoop", "install", pkg).
scoopInstall(w, pkg, ok) ==
    Only({
        LET args == <<"install", pkg>>
        IN IF ~commandExists(v, "scoop") THEN [w |-> Did(v, "scoop", "error", args), err |-> TRUE]
           ELSE IF ~ok THEN [w |-> Did(Fault(v), "scoop", "error", args), err |-> TRUE]
           ELSE [w |-> Did([v EXCEPT !.pkgs = @ \cup {pkg}], "scoop", "ok", args),
                 err |-> FALSE] : v \in {w}})

\* installScoopPackage registering the bucket before it reads the listing.
installScoopPackage_BucketFirst(w, pkg, bucket, io) ==
    LET bl == scoopList(w, <<"bucket", "list">>, ScoopBucketListOutput(w), TRUE)
        w1 == IF bucket = "" THEN w
              ELSE IF Contains(bl.out, bucket) THEN bl.w
              ELSE scoopBucketAdd(printInfo(bl.w, "Adding scoop bucket '" \o bucket \o "'..."),
                                  bucket, io.bucket)
        l == scoopList(w1, <<"list">>, ScoopListOutput(w1), io.list)
        i == scoopInstall(printInfo(l.w, "Installing " \o pkg \o " via scoop..."),
                          pkg, io.install)
    IN IF Contains(l.out, pkg)
           THEN writeSkip(l.w, pkg \o " already installed (scoop)")
       ELSE IF i.err
           THEN writeFail(i.w, "Failed to install " \o pkg \o " via scoop")
       ELSE writeSuccess(refreshPath(i.w, io.ps), pkg \o " installed (scoop)")

\* installScoopPackage giving up on the install when the registration fails.
installScoopPackage_BucketFailureFatal(w, pkg, bucket, io) ==
    LET l == scoopList(w, <<"list">>, ScoopListOutput(w), io.list)
        bl == scoopList(l.w, <<"bucket", "list">>, ScoopBucketListOutput(l.w), TRUE)
        adding == bucket # "" /\ ~Contains(bl.out, bucket)
        w1 == IF bucket = "" THEN l.w
              ELSE IF Contains(bl.out, bucket) THEN bl.w
              ELSE scoopBucketAdd(printInfo(bl.w, "Adding scoop bucket '" \o bucket \o "'..."),
                                  bucket, io.bucket)
        i == scoopInstall(printInfo(w1, "Installing " \o pkg \o " via scoop..."),
                          pkg, io.install)
    IN IF Contains(l.out, pkg)
           THEN writeSkip(l.w, pkg \o " already installed (scoop)")
       ELSE IF adding /\ ~io.bucket
           THEN writeFail(w1, "Failed to add scoop bucket " \o bucket)
       ELSE IF i.err
           THEN writeFail(i.w, "Failed to install " \o pkg \o " via scoop")
       ELSE writeSuccess(refreshPath(i.w, io.ps), pkg \o " installed (scoop)")

installScoopPackage(w, pkg, bucket, io) ==
    LET l == scoopList(w, <<"list">>, ScoopListOutput(w), io.list)
        bl == scoopList(l.w, <<"bucket", "list">>, ScoopBucketListOutput(l.w), TRUE)
        w1 == IF bucket = "" THEN l.w
              ELSE IF Contains(bl.out, bucket) THEN bl.w
              ELSE scoopBucketAdd(printInfo(bl.w, "Adding scoop bucket '" \o bucket \o "'..."),
                                  bucket, io.bucket)
        i == scoopInstall(printInfo(w1, "Installing " \o pkg \o " via scoop..."),
                          pkg, io.install)
    IN IF Contains(l.out, pkg)
           THEN writeSkip(l.w, pkg \o " already installed (scoop)")
       ELSE IF i.err
           THEN writeFail(i.w, "Failed to install " \o pkg \o " via scoop")
       ELSE writeSuccess(refreshPath(i.w, io.ps), pkg \o " installed (scoop)")

----------------------------------------------------------------------------
(* Git's global configuration. *)

GitKeys == {"user.name", "user.email", "core.editor", "core.autocrlf",
            "init.defaultBranch", "pull.rebase", "diff.colorMoved",
            "merge.conflictstyle"}

\* runCmd("git", "config", "--global", "--get", key): the value, "" when unset.
gitConfigGet(w, key) ==
    Only({
        LET args == <<"config", "--global", "--get", key>>
        IN IF ~commandExists(v, "git") THEN [w |-> Did(v, "git", "error", args), out |-> ""]
           ELSE IF v.gitcfg[key] = "" THEN [w |-> Did(v, "git", "error", args), out |-> ""]
           ELSE [w |-> Did(v, "git", "ok", args), out |-> v.gitcfg[key]] : v \in {w}})

\* runCmd("git", "config", "--global", key, value): its result is not looked at.
gitConfigSet(w, key, value, ok) ==
    Only({
        LET args == <<"config", "--global", key, value>>
        IN IF ~commandExists(v, "git") THEN Did(v, "git", "error", args)
           ELSE IF ~ok THEN Did(Fault(v), "git", "error", args)
           ELSE Did([v EXCEPT !.gitcfg[key] = value], "git", "ok", args) : v \in {w}})

\* setGitConfigIfMissing writing the value whatever the key holds.
setGitConfigIfMissing_AlwaysSets(w, key, value, ok) ==
    writeSuccess(gitConfigSet(gitConfigGet(w, key).w, key, value, ok),
                 "git " \o key \o " set to '" \o value \o "'")

setGitConfigIfMissing(w, key, value, ok) ==
    LET g == gitConfigGet(w, key)
    IN IF g.out # ""
           THEN writeSkip(g.w, "git " \o key \o " already set to '" \o g.out \o "'")
       ELSE writeSuccess(gitConfigSet(g.w, key, value, ok),
                         "git " \o key \o " set to '" \o value \o "'")

\* The six defaults of main, in order.
GitDefaults == <<
    <<"core.editor", "nvim">>, <<"core.autocrlf", "true">>,
    <<"init.defaultBranch", "main">>, <<"pull.rebase", "true">>,
    <<"diff.colorMoved", "default">>, <<"merge.conflictstyle", "diff3">> >>

\* The git defaults section of main: oks[i] is whether the i-th write succeeds.
RECURSIVE setGitDefaults(_, _, _)
setGitDefaults(w, i, oks) ==
    IF i > Len(GitDefaults) THEN w
    ELSE Only({setGitDefaults(v, i + 1, oks) :
                  v \in {setGitConfigIfMissing(w, GitDefaults[i][1], GitDefaults[i][2],
                                               oks[i])}})

gitDefaultsSection(w, oks) ==
    LET w1 == writeStep(w, "Configuring Git defaults")
    IN IF commandExists(w1, "git") THEN setGitDefaults(w1, 1, oks)
       ELSE writeFail(w1, "Git not found - skipping git config")

\* The identity prompt of main (lines 292-318): both values are read first.
gitIdentitySection(w, inputName, inputEmail, okName, okEmail) ==
    LET gn == gitConfigGet(w, "user.name")
        ge == gitConfigGet(gn.w, "user.email")
        pn == printInfo(ge.w, "Git user.name not configured.")
        w1 == IF gn.out # ""
                  THEN writeSkip(ge.w, "git user.name already set to '" \o gn.out \o "'")
              ELSE IF inputName # ""
                  THEN writeSuccess(gitConfigSet(pn, "user.name", inputName, okName),
                                    "git user.name set to '" \o inputName \o "'")
              ELSE pn
        pe == printInfo(w1, "Git user.email not configured.")
        w2 == IF ge.out # ""
                  THEN writeSkip(w1, "git user.email already set to '" \o ge.out \o "'")
              ELSE IF inputEmail # ""
                  THEN writeSuccess(gitConfigSet(pe, "user.email", inputEmail, okEmail),
                                    "git user.email set to '" \o inputEmail \o "'")
              ELSE pe
    IN IF commandExists(w, "git") THEN w2 ELSE w

----------------------------------------------------------------------------
(* Step 13: the LazyVim starter. *)

nvimConfigDir == Join(localAppData, <<"nvim">>)
lazyVimMarker == Join(nvimConfigDir, <<"lua", "config", "lazy.lua">>)

\* p is d or lies below d.
IsUnder(p, d) == Len(p) >= Len(d) /\ SubSeq(p, 1, Len(d)) = d

\* p with its leading d replaced by e.
Rebased(p, d, e) == Join(e, SubSeq(p, Len(d) + 1, Len(p)))

\* os.Stat(p) succeeds: p is a file or a directory.
StatOk(w, p) == p \in DOMAIN w.files \/ p \in w.dirs

\* os.Rename of a directory: everything below it moves along, unless the
\* new name is taken or the call fails; the result is not looked at.
osRename(w, from, to, ok) ==
    Only({
        IF StatOk(v, to) THEN Did(v, "os.Rename", "error", to)
        ELSE IF ~ok THEN Did(Fault(v), "os.Rename", "error", to)
        ELSE LET moved == {q \in DOMAIN v.files : IsUnder(q, from)}
                 kept == DOMAIN v.files \ moved
                 newFiles == [q \in kept \cup {Rebased(m, from, to) : m \in moved} |->
                                IF q \in kept THEN v.files[q]
                                ELSE v.files[Rebased(q, to, from)]]
                 newDirs == {d \in v.dirs : ~IsUnder(d, from)}
                            \cup {Rebased(d, from, to) : d \in {e \in v.dirs : IsUnder(e, from)}}
             IN Did([v EXCEPT !.files = newFiles, !.dirs = newDirs], "os.Rename", "ok", to) : v \in {w}})

\* What the starter repository holds once cloned.
StarterDirs == {nvimConfigDir, Join(nvimConfigDir, <<".git">>),
                Join(nvimConfigDir, <<"lua">>), Join(nvimConfigDir, <<"lua", "config">>)}
StarterFiles == {lazyVimMarker, Join(nvimConfigDir, <<".git", "HEAD">>),
                 Join(nvimConfigDir, <<"init.lua">>)}

\* runCmdPassthrough("git", "clone", url, dir): git refuses a directory that
\* exists and is not empty, and leaves nothing behind when it fails.
gitClone(w, ok) ==
    Only({
        LET args == <<"clone", "https://github.com/LazyVim/starter">> \o nvimConfigDir
            occupied == \E q \in (DOMAIN v.files \cup v.dirs) :
                            IsUnder(q, nvimConfigDir) /\ q # nvimConfigDir
        IN IF occupied THEN [w |-> Did(v, "git", "error", args), err |-> TRUE]
           ELSE IF ~ok THEN [w |-> Did(Fault(v), "git", "error", args), err |-> TRUE]
           ELSE [w |-> Did([v EXCEPT !.dirs = @ \cup StarterDirs,
                                     !.files = [q \in DOMAIN @ \cup StarterFiles |->
                                                  IF q \in StarterFiles THEN "X" ELSE @[q]]],
                           "git", "ok", args),
                 err |-> FALSE] : v \in {w}})

\* os.RemoveAll: the directory and everything below it; the result is not
\* looked at.
osRemoveAll(w, d, ok) ==
    Only({
        IF ~ok THEN Did(Fault(v), "os.RemoveAll", "error", d)
        ELSE Did([v EXCEPT !.files = [q \in {f \in DOMAIN @ : ~IsUnder(f, d)} |-> @[q]],
                           !.dirs = {e \in @ : ~IsUnder(e, d)}],
                 "os.RemoveAll", "ok", d) : v \in {w}})

\* The answers of the environment to the LazyVim step.
LazyVimIo == [rename : BOOLEAN, clone : BOOLEAN, rm : BOOLEAN]

LazyVimFaults(io) ==
    (IF io.rename THEN 0 ELSE 1) + (IF io.clone THEN 0 ELSE 1) + (IF io.rm THEN 0 ELSE 1)

lazyVimStep(w, io, t) ==
    LET w0 == writeStep(w, "Step 13/13: LazyVim (Neovim distribution)")
        backupDir == Suffixed(nvimConfigDir, ".bak." \o FormatTimestamp(t))
        backedUp(v) ==
            IF StatOk(v, nvimConfigDir)
                THEN osRename(printInfo(v, "Backing up existing nvim config to "
                                           \o PathStr(backupDir)),
                              nvimConfigDir, backupDir, io.rename)
            ELSE v
        cloned(w1) ==
            gitClone(printInfo(w1, "Cloning LazyVim starter..."), io.clone)
        finished(c) ==
            IF c.err THEN writeFail(c.w, "Failed to clone LazyVim starter")
            ELSE writeSuccess(osRemoveAll(c.w, Join(nvimConfigDir, <<".git">>), io.rm),
                              "LazyVim starter cloned to " \o PathStr(nvimConfigDir))
    IN IF StatOk(w0, lazyVimMarker) THEN writeSkip(w0, "LazyVim already configured")
       ELSE IF ~commandExists(w0, "git")
           THEN writeFail(w0, "Git not found - cannot clone LazyVim starter")
       ELSE Only({finished(c) : c \in {cloned(w1) : w1 \in {backedUp(w0)}}})

----------------------------------------------------------------------------
(* Post-install verification and the summary. *)

IsDigit(c) == c \in {"0", "1", "2", "3", "4", "5", "6", "7", "8", "9"}

\* The loop of extractVersion: i is the position read, start the position of
\* the first digit met (0 while none was).
RECURSIVE extractVersionFrom(_, _, _)
extractVersionFrom(s, i, start) ==
    IF i > Len(s) THEN (IF start # 0 THEN SubSeq(s, start, Len(s)) ELSE s)
    ELSE LET c == SubSeq(s, i, i)
         IN IF IsDigit(c) /\ start = 0 THEN extractVersionFrom(s, i + 1, i)
            ELSE IF IsDigit(c) THEN extractVersionFrom(s, i + 1, start)
            ELSE IF c = "." /\ start # 0 THEN extractVersionFrom(s, i + 1, start)
            ELSE IF start # 0 THEN SubSeq(s, start, i - 1)
            ELSE extractVersionFrom(s, i + 1, start)

\* extractVersion ending the version at the first dot: the loop without its
\* branch for '.'.
RECURSIVE extractDigitsFrom(_, _, _)
extractDigitsFrom(s, i, start) ==
    IF i > Len(s) THEN (IF start # 0 THEN SubSeq(s, start, Len(s)) ELSE s)
    ELSE LET c == SubSeq(s, i, i)
         IN IF IsDigit(c) /\ start = 0 THEN extractDigitsFrom(s, i + 1, i)
            ELSE IF IsDigit(c) THEN extractDigitsFrom(s, i + 1, start)
            ELSE IF start # 0 THEN SubSeq(s, start, i - 1)
            ELSE extractDigitsFrom(s, i + 1, start)

extractVersion_DigitsOnly(s) == extractDigitsFrom(s, 1, 0)

extractVersion(s) == extractVersionFrom(s, 1, 0)

\* The text up to the first line break (strings.IndexByte(version, '\n')).
FirstLine(s) ==
    LET breaks == {i \in 1..Len(s) : SubSeq(s, i, i) = "\n"}
    IN IF breaks = {} THEN s
       ELSE SubSeq(s, 1, (CHOOSE i \in breaks : \A j \in breaks : i <= j) - 1)

\* The tools of the report: name, command, and what the command prints when
\* asked for its version.
Tools == <<
    <<"git", "git version 2.43.0.windows.1">>,
    <<"scoop", "Current Scoop version:\nv0.3.1 - Released at 2022-10-31">>,
    <<"zig", "0.11.0">>,
    <<"rg", "ripgrep 14.1.0\n-SIMD -AVX (compiled)">>,
    <<"fd", "fd 9.0.0">>,
    <<"volta", "1.1.1">>,
    <<"node", "v20.11.0">>,
    <<"nu", "0.89.0">>,
    <<"starship", "starship 1.17.1\nbranch:master">>,
    <<"wezterm", "wezterm 20240203-110809-5046fc22">>,
    <<"nvim", "NVIM v0.9.5\nBuild type: Release">> >>

\* What the loop prints for each tool that is found: the version extracted
\* from the first line of the command's output.
ToolVersions == [i \in 1..Len(Tools) |-> extractVersion(FirstLine(Tools[i][2]))]

\* The report loop over the tools from the i-th on.
RECURSIVE reportTools(_, _)
reportTools(w, i) ==
    IF i > Len(Tools) THEN w
    ELSE LET name == Tools[i][1]
             line == IF commandExists(w, name)
                         THEN name \o " " \o ToolVersions[i]
                     ELSE name \o " NOT FOUND"
         IN Only({reportTools(v, i + 1) :
                     v \in {[w EXCEPT !.out = Append(@, <<"TOOL", line>>)]}})

\* The verification logging a failure when a tool is not found.
verifySection_FailsMissingTools(w, psOk) ==
    LET w1 == reportTools(refreshPath(writeStep(w, "Verifying installations"), psOk), 1)
    IN IF \A i \in 1..Len(Tools) : commandExists(w1, Tools[i][1]) THEN w1
       ELSE writeFail(w1, "Some tools were not found")

verifySection(w, psOk) ==
    reportTools(refreshPath(writeStep(w, "Verifying installations"), psOk), 1)

\* The lines of the failure list from the i-th on.
RECURSIVE listFailures(_, _)
listFailures(w, i) ==
    IF i > Len(w.failures) THEN w
    ELSE listFailures([w EXCEPT !.out = Append(@, <<"SUMMARY", "- " \o w.failures[i]>>)],
                      i + 1)

\* The summary printing the banner whatever the log holds.
summarySection_AlwaysAllDone(w) ==
    [w EXCEPT !.out = Append(@, <<"SUMMARY", "All done! No failures.">>)]

summarySection(w) ==
    IF Len(w.failures) > 0
        THEN listFailures([w EXCEPT !.out = Append(@,
                 <<"SUMMARY", "Completed with " \o ToString(Len(w.failures))
                              \o " failure(s):">>)], 1)
    ELSE [w EXCEPT !.out = Append(@, <<"SUMMARY", "All done! No failures.">>)]

----------------------------------------------------------------------------
(* The deployer on its own: successive runs of the program seen at one of  *)
(* its deployConfigFile calls, the user editing files between the runs.    *)

\* The world after the operation becomes the state of the machine.
SetWorld(w) ==
    \E v \in {w} :
        /\ v.faults <= MaxFaults
        /\ failures' = v.failures
        /\ out' = v.out
        /\ trace' = v.trace
        /\ envPath' = v.path
        /\ files' = v.files
        /\ dirs' = v.dirs
        /\ persisted' = v.persisted
        /\ pkgs' = v.pkgs
        /\ buckets' = v.buckets
        /\ gitcfg' = v.gitcfg
        /\ faults' = v.faults

\* There was no process before.
NoSnap == [taken |-> FALSE, files |-> <<>>, dirs |-> {}, failures |-> <<>>, faults |-> 0]

\* A fresh process: the failure log is empty, nothing is printed yet.
Fresh == [World EXCEPT !.failures = <<>>, !.out = <<>>, !.trace = <<>>]

\* Each observed call is given the environment's full budget of failures.
Observed == [Fresh EXCEPT !.faults = 0]

BaseDirs == Ancestors(scriptRoot) \cup Ancestors(userProfile)
            \cup Ancestors(appData) \cup Ancestors(localAppData)

SourceOf(i) == Join(scriptRoot, DeployPairs[i].srcRel)
TargetOf(i) == DeployPairs[i].target

DeployInit ==
    /\ pc = "off"
    /\ cur \in ObservedPairs
    /\ exitCode = -1
    /\ failures = <<>>
    /\ out = <<>>
    /\ trace = <<>>
    /\ dirs = BaseDirs \cup Ancestors(Dir(SourceOf(cur)))
    /\ \E c \in Contents : files = [p \in {SourceOf(cur)} |-> c]
    /\ now = 0
    /\ envPath = {}
    /\ persisted = {}
    /\ pkgs = {}
    /\ buckets = {}
    /\ gitcfg = <<>>
    /\ faults = 0
    /\ run = 0
    /\ snap = NoSnap

\* A process starts and reaches its deployConfigFile call for the pair.
ObserveStart ==
    /\ pc = "off"
    /\ pc' = "deploy"
    /\ SetWorld(Observed)
    /\ UNCHANGED <<cur, exitCode, now, run, snap>>

\* The call is made and returns.
ObserveDeploy ==
    /\ pc = "deploy"
    /\ pc' = "off"
    /\ \E io \in DeployIo(MaxFaults) :
          SetWorld(deployConfigFile(World, DeployPairs[cur].srcRel, TargetOf(cur), io, now))
    /\ UNCHANGED <<cur, exitCode, now, run, snap>>

\* The user edits, creates or deletes the target or the source between runs.
ExternalEdit ==
    /\ pc = "off"
    /\ \E p \in {SourceOf(cur), TargetOf(cur)} :
          \/ /\ Dir(p) \in dirs
             /\ \E c \in Contents : files' = WithFile(files, p, c)
          \/ /\ p \in DOMAIN files
             /\ files' = [q \in DOMAIN files \ {p} |-> files[q]]
    /\ UNCHANGED <<pc, cur, exitCode, failures, out, trace, envPath, dirs, persisted,
                   pkgs, buckets, gitcfg, faults, now, run, snap>>

\* A second passes.
Tick ==
    /\ now < MaxSec
    /\ now' = now + 1
    /\ UNCHANGED <<pc, cur, exitCode, failures, out, trace, envPath, files, dirs,
                   persisted, pkgs, buckets, gitcfg, faults, run, snap>>

DeployNext == ObserveStart \/ ObserveDeploy \/ ExternalEdit \/ Tick

SpecDeploy == DeployInit /\ [][DeployNext]_vars

----------------------------------------------------------------------------
(* main: the process, one action per section of main.                      *)

\* The sections of main after the preflight checks, in order.
Pipeline == <<"scoop", "git", "identity", "font", "zig", "ripgrep", "fd", "volta",
              "node", "nushell", "starship", "wezterm", "neovim", "lazyvim",
              "deploy", "gitconfig", "verify", "summary">>

IndexOf(section) == CHOOSE i \in 1..Len(Pipeline) : Pipeline[i] = section

\* The order of main with the Node.js step moved before the Volta step.
After_NodeBeforeVolta(section) ==
    IF section = "fd" THEN "node"
    ELSE IF section = "node" THEN "volta"
    ELSE IF section = "volta" THEN "nushell"
    ELSE Pipeline[IndexOf(section) + 1]

\* The section after this one.
After(section) == Pipeline[IndexOf(section) + 1]

\* The installWingetPackage calls of main: header, package id, display name.
WingetSteps ==
    [git      |-> <<"Step 2/13: Git", "Git.Git", "Git">>,
     zig      |-> <<"Step 4/13: Zig (C compiler for Treesitter)", "zig.zig", "Zig">>,
     ripgrep  |-> <<"Step 5/13: ripgrep", "BurntSushi.ripgrep.MSVC", "ripgrep">>,
     fd       |-> <<"Step 6/13: fd", "sharkdp.fd", "fd">>,
     volta    |-> <<"Step 7/13: Volta (JS toolchain manager)", "Volta.Volta", "Volta">>,
     nushell  |-> <<"Step 9/13: Nushell", "Nushell.Nushell", "Nushell">>,
     starship |-> <<"Step 10/13: Starship (prompt)", "Starship.Starship", "Starship">>,
     wezterm  |-> <<"Step 11/13: WezTerm", "wez.wezterm", "WezTerm">>,
     neovim   |-> <<"Step 12/13: Neovim", "Neovim.Neovim", "Neovim">>]

WingetIds == {WingetSteps[k][2] : k \in DOMAIN WingetSteps}

\* os.Exit: the process ends with the code.
Exit(w, code) ==
    /\ SetWorld(w)
    /\ pc' = "off"
    /\ exitCode' = code
    /\ cur' = 1
    /\ UNCHANGED <<now, run, snap>>

\* The section is done: main goes on with the next one.
Goto(w, section) ==
    /\ SetWorld(w)
    /\ pc' = section
    /\ UNCHANGED <<cur, exitCode, now, run, snap>>

\* The process starts, for the n-th time at most: main up to the banner
\* (lines 231-246).
Start(n) ==
    /\ pc = "off"
    /\ run < n
    /\ run' = run + 1
    /\ \E exeOk \in BOOLEAN :
          IF exeOk
              THEN /\ SetWorld(Fresh)
                   /\ pc' = "preflight"
                   /\ exitCode' = -1
              ELSE /\ SetWorld([Fault(Fresh) EXCEPT !.out =
                          <<<<"ERROR", "Cannot determine executable path">>>>])
                   /\ pc' = "off"
                   /\ exitCode' = 1
    \* what the process before this one left behind, if it ran to its end
    /\ snap' = [taken |-> exitCode = 0, files |-> files, dirs |-> dirs,
                failures |-> failures, faults |-> faults]
    /\ UNCHANGED <<cur, now>>

\* The preflight probing the network only after the first config file is
\* deployed.
Preflight_DeploysBeforeProbe ==
    /\ pc = "preflight"
    /\ LET w0 == writeStep(World, "Running preflight checks")
           w1 == deployConfigFile(writeSuccess(w0, "winget found"), DeployPairs[1].srcRel,
                                  DeployPairs[1].target, CHOOSE io \in DeployIo(0) : TRUE, now)
       IN IF ~commandExists(w0, "winget")
              THEN Exit([w0 EXCEPT !.out = Append(@, <<"ERROR", "winget is not available.">>)], 1)
          ELSE \E net \in BOOLEAN :
                  IF ~net
                      THEN Exit([Did(w1, "http.Get", "error", <<"https://www.github.com">>)
                                    EXCEPT !.out = Append(@, <<"ERROR", "Cannot reach github.com. Check your internet connection.">>)], 1)
                  ELSE Goto(writeSuccess(Did(w1, "http.Get", "ok", <<"https://www.github.com">>),
                                         "Internet connectivity OK"), Pipeline[1])

\* The preflight checks (lines 248-268).
Preflight ==
    /\ pc = "preflight"
    /\ LET w0 == writeStep(World, "Running preflight checks")
           w1 == writeSuccess(w0, "winget found")
       IN IF ~commandExists(w0, "winget")
              THEN Exit([w0 EXCEPT !.out = Append(@, <<"ERROR", "winget is not available.">>)], 1)
          ELSE \E net \in BOOLEAN :
                  IF ~net
                      THEN Exit([Did(w1, "http.Get", "error", <<"https://www.github.com">>)
                                    EXCEPT !.out = Append(@, <<"ERROR", "Cannot reach github.com. Check your internet connection.">>)], 1)
                  ELSE Goto(writeSuccess(Did(w1, "http.Get", "ok", <<"https://www.github.com">>),
                                         "Internet connectivity OK"), Pipeline[1])

\* Step 1 (lines 270-285).
scoopStep(w, io) ==
    LET w0 == writeStep(w, "Step 1/13: Scoop (package manager)")
        args == <<"-NoProfile", "-Command", "Invoke-RestMethod get.scoop.sh | Invoke-Expression">>
        w1 == printInfo(w0, "Installing Scoop...")
    IN IF commandExists(w0, "scoop") THEN writeSkip(w0, "Scoop already installed")
       ELSE IF ~io.install
           THEN writeFail(Did(Fault(w1), "powershell", "error", args),
                          "Failed to install Scoop: exit status 1")
       ELSE writeSuccess(refreshPath(Did([w1 EXCEPT !.persisted = @ \cup {"scoop"}],
                                         "powershell", "ok", args), io.ps),
                         "Scoop installed")

\* Step 8 (lines 340-359).
nodeStep(w, io) ==
    LET w0 == writeStep(w, "Step 8/13: Node.js LTS (via Volta)")
        args == <<"install", "node">>
        w1 == printInfo(w0, "Installing Node.js LTS via Volta...")
    IN IF commandExists(w0, "node")
           THEN writeSkip(Did(w0, "node", "ok", <<"--version">>),
                          "Node.js already installed (v20.11.0)")
       ELSE IF ~commandExists(w0, "volta")
           THEN writeFail(w0, "Volta not found - cannot install Node.js")
       ELSE IF ~io.install
           THEN writeFail(Did(Fault(w1), "volta", "error", args),
                          "Failed to install Node.js via Volta")
       ELSE writeSuccess(refreshPath(Did([w1 EXCEPT !.persisted = @ \cup {"node"}],
                                         "volta", "ok", args), io.ps),
                         "Node.js LTS installed via Volta")

\* The answers main's installer calls are run against: the listing commands
\* answer, and at most n of the other operations fail (the bucket registration
\* is an operation of the font step alone).
InstallAnswers(n, withBucket) ==
    {io \in InstallIo : io.list /\ (withBucket \/ io.bucket) /\ InstallFaults(io) <= n}

\* The answers main's deployConfigFile calls are run against: the operations
\* the call does not reach succeed, and so does hashing the source.
MainDeployIo(w, i, n) ==
    {io \in DeployIo(n) :
        /\ io.hsrc = "ok" /\ io.htgt # "copy" /\ io.bak \in {"ok", "create"}
        /\ io.cp # "open" /\ io.k = 0
        /\ io.mkdir \/ Dir(TargetOf(i)) \notin w.dirs
        /\ Exists(w, TargetOf(i)) \/ (io.htgt = "ok" /\ io.bak = "ok")
        /\ Exists(w, SourceOf(i)) \/ (io.mkdir /\ io.htgt = "ok" /\ io.bak = "ok"
                                       /\ io.cp = "ok")}

\* The answers to the six writes of the git defaults: at most n fail.
GitDefaultsAnswers(n) ==
    {oks \in [1..Len(GitDefaults) -> BOOLEAN] :
        Cardinality({i \in 1..Len(GitDefaults) : ~oks[i]}) <= n}

ScoopStep ==
    /\ pc = "scoop"
    /\ \E io \in InstallAnswers(MaxFaults - faults, FALSE) :
          Goto(scoopStep(World, io), After(pc))

\* Steps 2, 4-7 and 9-12: one installWingetPackage call each.
WingetStep ==
    /\ pc \in DOMAIN WingetSteps
    /\ \E io \in InstallAnswers(MaxFaults - faults, FALSE) :
          Goto(installWingetPackage(writeStep(World, WingetSteps[pc][1]),
                                    WingetSteps[pc][2], WingetSteps[pc][3], io),
               After(pc))

\* What the user types at a prompt.
PromptInputs == {"", "Dev"}

IdentityStep ==
    /\ pc = "identity"
    /\ \E inputName \in PromptInputs, inputEmail \in PromptInputs,
          okName \in BOOLEAN, okEmail \in BOOLEAN :
          Goto(gitIdentitySection(World, inputName, inputEmail, okName, okEmail), After(pc))

\* Step 3.
FontStep ==
    /\ pc = "font"
    /\ \E io \in InstallAnswers(MaxFaults - faults, TRUE) :
          Goto(installScoopPackage(writeStep(World, "Step 3/13: JetBrainsMono Nerd Font"),
                                   "JetBrainsMono-NF", "nerd-fonts", io),
               After(pc))

NodeStep ==
    /\ pc = "node"
    /\ \E io \in InstallAnswers(MaxFaults - faults, FALSE) :
          Goto(nodeStep(World, io), After(pc))

LazyVimStep ==
    /\ pc = "lazyvim"
    /\ \E io \in {i \in LazyVimIo : LazyVimFaults(i) <= MaxFaults - faults} :
          /\ SetWorld(writeStep(lazyVimStep(World, io, now), "Deploying configuration files"))
          /\ pc' = "deploy"
          /\ cur' = 1
    /\ UNCHANGED <<exitCode, now, run, snap>>

\* One of the four deployConfigFile calls of main (lines 416-431).
DeployStep ==
    /\ pc = "deploy"
    /\ \E io \in MainDeployIo(World, cur, MaxFaults - faults) :
          SetWorld(deployConfigFile(World, DeployPairs[cur].srcRel, TargetOf(cur), io, now))
    /\ IF cur < Len(DeployPairs)
           THEN pc' = pc /\ cur' = cur + 1
           ELSE pc' = After(pc) /\ cur' = 1
    /\ UNCHANGED <<exitCode, now, run, snap>>

GitConfigStep ==
    /\ pc = "gitconfig"
    /\ \E oks \in GitDefaultsAnswers(IF commandExists(World, "git")
                                          THEN MaxFaults - faults ELSE 0) :
          Goto(gitDefaultsSection(World, oks), After(pc))

VerifyStep ==
    /\ pc = "verify"
    /\ \E psOk \in BOOLEAN : Goto(verifySection(World, psOk), After(pc))

\* The summary, the exit code telling whether a step has failed.
SummaryStep_ExitsOneOnFailures ==
    /\ pc = "summary"
    /\ Exit(summarySection(World), IF failures = <<>> THEN 0 ELSE 1)

\* The summary, and main returns: the process exits with code 0.
SummaryStep ==
    /\ pc = "summary"
    /\ Exit(summarySection(World), 0)

\* A second passes, between two runs or within one. Only the LazyVim step and
\* the deploy calls read the clock, and no two of them name the same file, so
\* the seconds that pass anywhere in a run are let pass before the first.
MainTick ==
    /\ pc \in {"off", "lazyvim"}
    /\ Tick

----------------------------------------------------------------------------
(* The machines the program is started on. *)

FontPackage == "JetBrainsMono-NF"

\* The commands on the persisted Path of a machine with these packages.
CommandsOf(installed) ==
    {CommandOf(id) : id \in installed \cap WingetIds}
    \cup (IF FontPackage \in installed THEN {"scoop"} ELSE {})
    \cup (IF "Volta.Volta" \in installed THEN {"node"} ELSE {})

\* The user's Neovim configuration: none, their own, or a LazyVim one.
NvimDirs(n) ==
    IF n = "none" THEN {}
    ELSE IF n = "own" THEN {nvimConfigDir}
    ELSE StarterDirs \ {Join(nvimConfigDir, <<".git">>)}

NvimFiles(n) ==
    IF n = "none" THEN {}
    ELSE IF n = "own" THEN {Join(nvimConfigDir, <<"init.lua">>)}
    ELSE {lazyVimMarker, Join(nvimConfigDir, <<"init.lua">>)}

\* The machines the first run is started on: what is installed, the git
\* settings that hold a value, the Neovim configuration, the content of the
\* four targets ("-" is no file) and the sources missing from the installation.
\*   a fresh machine; a machine the program has provisioned before; a machine
\*   its user has set up by hand; the same with a source file missing.
Machines == {
    [installed |-> {}, gitcfg |-> {}, nvim |-> "none",
     targets |-> <<"-", "-", "-", "-">>, missing |-> {}],
    [installed |-> WingetIds \cup {FontPackage}, gitcfg |-> GitKeys, nvim |-> "lazyvim",
     targets |-> <<"X", "X", "X", "X">>, missing |-> {}],
    [installed |-> {"Git.Git"}, gitcfg |-> {"user.name", "core.editor"}, nvim |-> "own",
     targets |-> <<"Y", "", "X", "-">>, missing |-> {}],
    [installed |-> {"Git.Git"}, gitcfg |-> GitKeys, nvim |-> "own",
     targets |-> <<"Y", "-", "X", "-">>, missing |-> {3, 4}] }

MainInit ==
    /\ pc = "off"
    /\ cur = 1
    /\ exitCode = -1
    /\ failures = <<>>
    /\ out = <<>>
    /\ trace = <<>>
    /\ faults = 0
    /\ now = 0
    /\ run = 0
    /\ snap = NoSnap
    /\ \E m \in Machines, hasWinget \in BOOLEAN, stale \in BOOLEAN :
          \* one machine without winget; a stale PATH where tools are installed
          /\ hasWinget \/ (m.installed = {} /\ ~stale)
          /\ stale => m.installed # {}
          /\ LET present == {i \in 1..Len(DeployPairs) : m.targets[i] # "-"}
                 sources == {SourceOf(i) : i \in (1..Len(DeployPairs)) \ m.missing}
                 targets == {TargetOf(i) : i \in present}
                 winget == IF hasWinget THEN {"winget"} ELSE {}
             IN /\ pkgs = m.installed
                /\ buckets = IF FontPackage \in m.installed THEN {"nerd-fonts"} ELSE {}
                /\ persisted = CommandsOf(m.installed) \cup winget
                \* a stale PATH: inherited from before the tools were installed
                /\ envPath = IF stale THEN winget ELSE persisted
                /\ gitcfg = [k \in GitKeys |-> IF k \in m.gitcfg THEN "set" ELSE ""]
                /\ dirs = BaseDirs \cup NvimDirs(m.nvim)
                           \cup UNION {Ancestors(Dir(SourceOf(i))) : i \in 1..Len(DeployPairs)}
                           \cup UNION {Ancestors(Dir(t)) : t \in targets}
                /\ files = [q \in sources \cup targets \cup NvimFiles(m.nvim) |->
                               IF q \in sources THEN "X"
                               ELSE IF q \in targets
                                   THEN m.targets[CHOOSE i \in present : TargetOf(i) = q]
                               ELSE "Y"]

Sections ==
    \/ Preflight
    \/ ScoopStep
    \/ WingetStep
    \/ IdentityStep
    \/ FontStep
    \/ NodeStep
    \/ LazyVimStep
    \/ DeployStep
    \/ GitConfigStep
    \/ VerifyStep
    \/ SummaryStep
    \/ MainTick

\* One run of the program.
Next == Start(1) \/ Sections

Spec == MainInit /\ [][Next]_vars

\* Main is sequential code: a section that can run does run.
FairSpec == Spec /\ WF_vars(Sections)

\* The program run again after it has ended, nothing else touching the machine.
NextTwice == Start(MaxRuns) \/ Sections

SpecTwice == MainInit /\ [][NextTwice]_vars

----------------------------------------------------------------------------
(* What the claims about deployConfigFile read. *)

\* A step that is one deployConfigFile call, from its entry to its return.
IsDeployStep == pc = "deploy" /\ <<pc, cur>>' # <<pc, cur>>

\* p is target + ".bak." + some timestamp.
IsBackupOf(p, target) ==
    /\ Len(p) = Len(target)
    /\ Dir(p) = Dir(target)
    /\ Len(Base(p)) > Len(Base(target)) + 5
    /\ SubSeq(Base(p), 1, Len(Base(target)) + 5) = Base(target) \o ".bak."

BackupsOf(fs, target) == {p \in DOMAIN fs : IsBackupOf(p, target)}

\* What the process did during the step.
NewEvents == SubSeq(trace', Len(trace) + 1, Len(trace'))

\* The backup files of the target that copyFile created or truncated.
BackupsWritten(tr, target) ==
    {SubSeq(tr[i], 3, Len(tr[i])) :
        i \in {j \in 1..Len(tr) : /\ tr[j][1] = "copyFile"
                                  /\ IsBackupOf(SubSeq(tr[j], 3, Len(tr[j])), target)}}

\* A fingerprint could not be computed.
HashFailed(tr) == \E j \in 1..Len(tr) : tr[j][1] = "fileHash" /\ tr[j][2] = "error"

\* The tag of the last report line ("" when nothing was printed).
LastTag(o) == IF Len(o) = 0 THEN "" ELSE o[Len(o)][1]

Differs(fs, a, b) == Sha256Hex(fs[a]) # Sha256Hex(fs[b])

----------------------------------------------------------------------------
(* C1: every deployConfigFile call creates a backup file of its target if  *)
(* and only if the target existed before the call and its SHA-256          *)
(* fingerprint differed from the source's (a fingerprint that could not be *)
(* computed counts as differing).                                          *)
C1_BackupIffExistedAndDiffered ==
    [][IsDeployStep =>
        LET src == SourceOf(cur)
            tgt == TargetOf(cur)
        IN (BackupsWritten(NewEvents, tgt) # {})
           <=> (/\ src \in DOMAIN files
                /\ tgt \in DOMAIN files
                /\ Differs(files, src, tgt) \/ HashFailed(NewEvents))]_vars

(* C2: after a deployConfigFile call that reports Deployed or UpToDate and *)
(* appends nothing to the failure log, the target's SHA-256 fingerprint    *)
(* equals the source's.                                                    *)
C2_SuccessMeansSameFingerprint ==
    [][(IsDeployStep /\ LastTag(out') \in {"OK", "SKIP"} /\ failures' = failures) =>
        LET src == SourceOf(cur)
            tgt == TargetOf(cur)
        IN /\ src \in DOMAIN files'
           /\ tgt \in DOMAIN files'
           /\ ~Differs(files', src, tgt)]_vars

\* A call has returned with success and the target holds the source's content.
C2_Witness ==
    /\ pc = "off"
    /\ LastTag(out) = "OK"
    /\ failures = <<>>
    /\ TargetOf(cur) \in DOMAIN files
    /\ files[TargetOf(cur)] = "X"

\* The last report line is "[OK] Deployed ...".
ReportsDeployed(o) ==
    /\ LastTag(o) = "OK"
    /\ SubSeq(o[Len(o)][2], 1, 8) = "Deployed"

(* C9: the deploy scenario, call by call, the environment failing no       *)
(* operation of the call: onto an absent target the call creates the target*)
(* with the source's content, makes no backup and reports Deployed; onto a *)
(* target equal to the source it reports UpToDate and changes nothing on   *)
(* the file system; onto a target that differs it creates a backup file    *)
(* target.bak.<timestamp> holding the target's content of just before the  *)
(* call, gives the target the source's content and reports Deployed.       *)
C9_DeployScenario ==
    [][(IsDeployStep /\ faults' = faults /\ SourceOf(cur) \in DOMAIN files) =>
        LET src == SourceOf(cur)
            tgt == TargetOf(cur)
            made == BackupsWritten(NewEvents, tgt)
        IN IF tgt \notin DOMAIN files
               THEN /\ files' = WithFile(files, tgt, files[src])
                    /\ made = {}
                    /\ ReportsDeployed(out')
           ELSE IF files[tgt] = files[src]
               THEN /\ files' = files
                    /\ dirs' = dirs
                    /\ LastTag(out') = "SKIP"
           ELSE /\ Cardinality(made) = 1
                /\ \A p \in made :
                      files' = WithFile(WithFile(files, p, files[tgt]), tgt, files[src])
                /\ ReportsDeployed(out')]_vars

\* The third call of the scenario has returned: a backup holds "Y", the
\* target holds the source's "X" again, Deployed was reported.
C9_Witness ==
    /\ pc = "off"
    /\ faults = 0
    /\ ReportsDeployed(out)
    /\ TargetOf(cur) \in DOMAIN files
    /\ files[TargetOf(cur)] = "X"
    /\ SourceOf(cur) \in DOMAIN files
    /\ files[SourceOf(cur)] = "X"
    /\ \E p \in BackupsWritten(trace, TargetOf(cur)) : p \in DOMAIN files /\ files[p] = "Y"

(* C10: no deployConfigFile call deletes, truncates or overwrites a backup *)
(* file of its target that an earlier deploy created (stated for the calls *)
(* during which the environment fails no operation).                       *)
C10_BackupsNeverOverwritten ==
    [][(IsDeployStep /\ faults' = faults) =>
        \A p \in BackupsOf(files, TargetOf(cur)) :
            p \in DOMAIN files' /\ files'[p] = files[p]]_vars

----------------------------------------------------------------------------
(* The claims about a whole run of main. *)

\* The titles main prints, in the order of the source.
StepTitles ==
    <<"Running preflight checks", "Step 1/13: Scoop (package manager)", "Step 2/13: Git",
      "Step 3/13: JetBrainsMono Nerd Font", "Step 4/13: Zig (C compiler for Treesitter)",
      "Step 5/13: ripgrep", "Step 6/13: fd", "Step 7/13: Volta (JS toolchain manager)",
      "Step 8/13: Node.js LTS (via Volta)", "Step 9/13: Nushell",
      "Step 10/13: Starship (prompt)", "Step 11/13: WezTerm", "Step 12/13: Neovim",
      "Step 13/13: LazyVim (Neovim distribution)", "Deploying configuration files",
      "Configuring Git defaults", "Verifying installations">>

\* The messages of the report lines with the tag, in the order printed.
Tagged(o, tag) ==
    LET sel == SelectSeq(o, LAMBDA l : l[1] = tag)
    IN [i \in 1..Len(sel) |-> sel[i][2]]

\* What the process printed and logged during the step.
NewOut == SubSeq(out', Len(out) + 1, Len(out'))

NewFailures == SubSeq(failures', Len(failures) + 1, Len(failures'))

\* A section of main runs (a deploy call counts as one).
IsSectionStep == pc \in {Pipeline[i] : i \in 1..Len(Pipeline)} /\ <<pc, cur>>' # <<pc, cur>>

\* The provisioning steps the claims name: all sections but the identity
\* prompt, the verification report and the summary.
ProvisioningSteps == {Pipeline[i] : i \in 1..Len(Pipeline)} \ {"identity", "verify", "summary"}

\* An install command was invoked.
IsInstall(e) ==
    \/ e[1] \in {"winget", "scoop", "volta"} /\ e[3] = "install"
    \/ e[1] = "powershell" /\ e[3] = "-NoProfile"

Installs(tr) == {j \in 1..Len(tr) : IsInstall(tr[j])}

\* The SUMMARY lines that fit the failure log.
SummaryOf(fl) ==
    IF fl = <<>> THEN <<"All done! No failures.">>
    ELSE <<"Completed with " \o ToString(Len(fl)) \o " failure(s):">>
         \o [i \in 1..Len(fl) |-> "- " \o fl[i]]

\* The process before this one ran to its end and this one has, too.
SecondRunEnded == pc = "off" /\ exitCode = 0 /\ snap.taken

ListingOf(w, section) ==
    IF section = "font" THEN scoopList(w, <<"list">>, ScoopListOutput(w), TRUE).out
    ELSE wingetList(w, WingetSteps[section][2], TRUE).out

PackageOf(section) == IF section = "font" THEN FontPackage ELSE WingetSteps[section][2]

(* C5: in an installWingetPackage or installScoopPackage call, when the    *)
(* output of the listing command contains the package identifier, no       *)
(* install command is invoked and nothing is appended to the failure log.  *)
C5_ListingMatchSkipsInstall ==
    [][(/\ IsSectionStep
        /\ pc \in DOMAIN WingetSteps \cup {"font"}
        /\ Contains(ListingOf(World, pc), PackageOf(pc))) =>
            /\ Installs(NewEvents) = {}
            /\ failures' = failures
            /\ LastTag(out') = "SKIP"]_vars

\* Both installers have skipped a package they found listed.
C5_Witness ==
    /\ pc = "zig"
    /\ Installs(trace) = {}
    /\ \E i \in 1..Len(out) : out[i] = <<"SKIP", "Git already installed">>
    /\ out[Len(out)] = <<"SKIP", "JetBrainsMono-NF already installed (scoop)">>

\* The preflight blockers, and os.Executable failing, as the run shows them.
WingetMissing == Tagged(out, "ERROR") = <<"winget is not available.">>

ProbeFailed ==
    /\ Tagged(out, "ERROR") = <<"Cannot reach github.com. Check your internet connection.">>
    /\ \E j \in 1..Len(trace) : trace[j][1] = "http.Get" /\ trace[j][2] = "error"

ExecutableFailed == Tagged(out, "ERROR") = <<"Cannot determine executable path">>

(* C6, as stated: the process exits with code 1 only when winget is not    *)
(* resolvable or the connectivity probe fails.                             *)
C6_ExitOneOnlyForPreflightBlockers ==
    exitCode = 1 => (WingetMissing \/ ProbeFailed)

(* C6: the process exits with code 1 only when its own executable path     *)
(* cannot be determined, when winget is not resolvable, or when the        *)
(* connectivity probe fails.                                               *)
C6_ExitOneOnlyForStartupBlockers ==
    exitCode = 1 =>
        \/ ExecutableFailed
        \/ WingetMissing /\ ~commandExists(World, "winget")
        \/ ProbeFailed

\* The process has exited with code 1 on a machine that has winget, before
\* the connectivity probe.
C6_Witness ==
    /\ exitCode = 1
    /\ ExecutableFailed
    /\ commandExists(World, "winget")
    /\ trace = <<>>

(* C7: once preflight has passed the run reaches its end with exit code 0, *)
(* whatever the failure log holds, and the summary printed is the list of  *)
(* every logged failure when the log is not empty and the "no failures"    *)
(* banner exactly when it is empty.                                        *)
C7_CompletesWithExitZero ==
    (pc = Pipeline[1]) ~>
        (pc = "off" /\ exitCode = 0 /\ Tagged(out, "SUMMARY") = SummaryOf(failures))

\* A run has ended with exit code 0 and several failures listed.
C7_Witness ==
    /\ pc = "off"
    /\ exitCode = 0
    /\ Len(failures) >= 2
    /\ Tagged(out, "SUMMARY") = SummaryOf(failures)

(* C8: a run that ends in a preflight failure has invoked no command but   *)
(* the connectivity probe, has printed no title but the preflight's and no *)
(* line of the verification report, and has left the file system and the   *)
(* git configuration as it found them.                                     *)
C8_PreflightFailureRunsNothing ==
    (pc = "off" /\ exitCode = 1) =>
        /\ \A j \in 1..Len(trace) : trace[j][1] = "http.Get"
        /\ \A i \in 1..Len(out) : out[i][1] \in {"STEP", "OK", "ERROR"}
        /\ Tagged(out, "STEP") \in {<<>>, <<StepTitles[1]>>}
        /\ files = snap.files
        /\ dirs = snap.dirs

\* A run has ended at the connectivity probe.
C8_Witness ==
    /\ pc = "off"
    /\ exitCode = 1
    /\ ProbeFailed
    /\ Tagged(out, "OK") = <<"winget found">>

----------------------------------------------------------------------------
(* C11: a deployConfigFile call whose source file does not exist appends   *)
(* exactly one failure to the failure log, the one naming the source, and  *)
(* returns without touching the file system: no directory is created, no   *)
(* file is opened, hashed, backed up or written, an existing target keeps  *)
(* its content; the process does not exit and main goes on with the next   *)
(* call or section.                                                        *)
C11_SourceMissingFailsOnce ==
    [][(IsDeployStep /\ SourceOf(cur) \notin DOMAIN files) =>
        /\ NewFailures = <<"Source config not found: " \o PathStr(DeployPairs[cur].srcRel)>>
        /\ SubSeq(failures', 1, Len(failures)) = failures
        /\ files' = files
        /\ dirs' = dirs
        /\ NewEvents = <<>>
        /\ exitCode' = exitCode
        /\ <<pc', cur'>> = IF cur < Len(DeployPairs) THEN <<pc, cur + 1>>
                           ELSE <<After(pc), 1>>]_vars

\* A run has ended in which two sources were missing, one of a target that
\* exists and one of a target whose directory does not, and the sections
\* after the deployment have reported.
C11_Witness ==
    /\ pc = "off"
    /\ exitCode = 0
    /\ \E i \in 1..Len(failures) :
          failures[i] = "Source config not found: " \o PathStr(DeployPairs[3].srcRel)
    /\ \E i \in 1..Len(failures) :
          failures[i] = "Source config not found: " \o PathStr(DeployPairs[4].srcRel)
    /\ TargetOf(3) \in DOMAIN files
    /\ Dir(TargetOf(4)) \notin dirs
    /\ Tagged(out, "SUMMARY") # <<>>

----------------------------------------------------------------------------
(* What the claims about the installers read. *)

\* The sections that are one installWingetPackage or installScoopPackage call.
IsInstallerStep == IsSectionStep /\ pc \in DOMAIN WingetSteps \cup {"font"}

\* The positions of refreshPath's powershell among the events.
Refreshes(tr) == {j \in 1..Len(tr) : tr[j][1] = "powershell" /\ tr[j][3] = "GetEnvironmentVariable"}

(* C12: in an installWingetPackage or installScoopPackage call that        *)
(* invokes the install command, the command is invoked once; when it fails *)
(* exactly one entry is appended to the failure log and the search path is *)
(* not refreshed; when it succeeds nothing is appended to the failure log  *)
(* and, when the call returns, the process's search path is the persisted  *)
(* one, re-read after the install.                                         *)
C12_InstallOutcome ==
    [][(IsInstallerStep /\ Installs(NewEvents) # {}) =>
        /\ Cardinality(Installs(NewEvents)) = 1
        /\ \A j \in Installs(NewEvents) :
              IF NewEvents[j][2] = "error"
                  THEN /\ Len(NewFailures) = 1
                       /\ Refreshes(NewEvents) = {}
                       /\ envPath' = envPath
              ELSE /\ NewFailures = <<>>
                   /\ \E k \in Refreshes(NewEvents) : k > j
                   /\ envPath' = persisted']_vars

\* The scoop command of an event: what follows the command's name and result.
ScoopArgs(e) == IF e[1] = "scoop" THEN SubSeq(e, 3, Len(e)) ELSE <<>>

FontBucket == "nerd-fonts"

\* "scoop bucket list" names the bucket.
BucketListed(w) ==
    Contains(scoopList(w, <<"bucket", "list">>, ScoopBucketListOutput(w), TRUE).out, FontBucket)

(* C13, as stated: in an installScoopPackage call given a bucket that is   *)
(* not registered, the bucket registration command is run, and the install *)
(* listing is read only after it.                                          *)
C13_BucketBeforeListing ==
    [][(IsSectionStep /\ pc = "font" /\ ~BucketListed(World)) =>
        \E j \in 1..Len(NewEvents), k \in 1..Len(NewEvents) :
            /\ j < k
            /\ ScoopArgs(NewEvents[j]) = <<"bucket", "add", FontBucket>>
            /\ ScoopArgs(NewEvents[k]) = <<"list">>]_vars

(* C13: an installScoopPackage call given a bucket reads the install       *)
(* listing first; when the listing names the package the call skips and    *)
(* runs no other command, the bucket commands included; otherwise it reads *)
(* the bucket listing, runs the registration command if and only if the    *)
(* bucket is not listed, and then runs the install command: the order of   *)
(* events is listing check, bucket check, registration, install.           *)
C13_ListingBeforeBucket ==
    [][(IsSectionStep /\ pc = "font") =>
        LET ev == [i \in 1..Len(NewEvents) |-> ScoopArgs(NewEvents[i])]
            install == <<"install", FontPackage>>
        IN /\ Len(ev) >= 1
           /\ ev[1] = <<"list">>
           /\ IF Contains(ListingOf(World, "font"), FontPackage)
                  THEN Len(ev) = 1 /\ LastTag(out') = "SKIP"
              ELSE /\ Len(ev) >= 3
                   /\ ev[2] = <<"bucket", "list">>
                   /\ IF BucketListed(World) THEN ev[3] = install
                      ELSE /\ Len(ev) >= 4
                           /\ ev[3] = <<"bucket", "add", FontBucket>>
                           /\ ev[4] = install
                   /\ Cardinality({i \in 1..Len(ev) : ev[i] = install}) = 1]_vars

\* The font step has run all four commands: the listing, the bucket listing,
\* the registration and the install, one after the other.
C13_Witness ==
    /\ pc = "zig"
    /\ \E j \in 1..Len(trace) :
          /\ j + 3 <= Len(trace)
          /\ trace[j] = <<"scoop", "ok", "list">>
          /\ trace[j + 1] = <<"scoop", "ok", "bucket", "list">>
          /\ trace[j + 2] = <<"scoop", "ok", "bucket", "add", FontBucket>>
          /\ trace[j + 3] = <<"scoop", "ok", "install", FontPackage>>

(* C14: in an installScoopPackage call that runs the bucket registration   *)
(* command, the install command is run after it whether the registration   *)
(* succeeded or failed, and the registration adds nothing to the failure   *)
(* log: the log grows by the install's failure message when the install    *)
(* fails, and by nothing otherwise.                                        *)
C14_BucketFailureIsSoft ==
    [][(/\ IsSectionStep
        /\ pc = "font"
        /\ \E j \in 1..Len(NewEvents) :
              ScoopArgs(NewEvents[j]) = <<"bucket", "add", FontBucket>>) =>
        \A j \in {i \in 1..Len(NewEvents) :
                     ScoopArgs(NewEvents[i]) = <<"bucket", "add", FontBucket>>} :
            \E k \in (j + 1)..Len(NewEvents) :
                /\ ScoopArgs(NewEvents[k]) = <<"install", FontPackage>>
                /\ NewFailures = IF NewEvents[k][2] = "error"
                                     THEN <<"Failed to install " \o FontPackage \o " via scoop">>
                                 ELSE <<>>]_vars

\* The font step has returned after a registration that failed: the install
\* was run all the same and the failure log is empty.
C14_Witness ==
    /\ pc = "zig"
    /\ failures = <<>>
    /\ \E j \in 1..Len(trace) :
          /\ j < Len(trace)
          /\ trace[j] = <<"scoop", "error", "bucket", "add", FontBucket>>
          /\ trace[j + 1] = <<"scoop", "ok", "install", FontPackage>>

----------------------------------------------------------------------------
(* extractVersion on its own: the verification loop given the first line   *)
(* of a tool's output, any short text over a few characters or one of the  *)
(* texts listed.                                                           *)

\* A digit, a second digit, the dot, a letter and the space.
Alphabet == {"1", "2", ".", "v", " "}

\* The texts of at most n characters.
RECURSIVE Texts(_)
Texts(n) ==
    IF n = 0 THEN {""}
    ELSE LET shorter == Texts(n - 1)
         IN shorter \cup {s \o c : s \in shorter, c \in Alphabet}

VersionInputs ==
    Texts(MaxLen) \cup {"1.2.3 (abcdef)", "no digits here"}
    \cup {FirstLine(Tools[i][2]) : i \in 1..Len(Tools)}

\* The loop holds the first line of the output of a tool.
VersionInit ==
    /\ pc = "verify"
    /\ \E s \in VersionInputs : out = <<<<"LINE", s>>>>
    /\ cur = 1
    /\ exitCode = -1
    /\ failures = <<>>
    /\ trace = <<>>
    /\ envPath = {}
    /\ files = <<>>
    /\ dirs = {}
    /\ persisted = {}
    /\ pkgs = {}
    /\ buckets = {}
    /\ gitcfg = <<>>
    /\ faults = 0
    /\ now = 0
    /\ run = 1
    /\ snap = NoSnap

\* version = extractVersion(version), and the version is printed.
ExtractVersion ==
    /\ pc = "verify"
    /\ Len(out) = 1
    /\ out' = Append(out, <<"VERSION", extractVersion(out[1][2])>>)
    /\ pc' = "summary"
    /\ UNCHANGED <<cur, exitCode, failures, trace, envPath, files, dirs, persisted,
                   pkgs, buckets, gitcfg, faults, now, run, snap>>

SpecVersion == VersionInit /\ [][ExtractVersion]_vars

\* The character of s at position i.
CharAt(s, i) == SubSeq(s, i, i)

\* The positions of the digits of s.
DigitsOf(s) == {i \in 1..Len(s) : IsDigit(CharAt(s, i))}

\* The run of digits and dots of s that starts at position a: up to the last
\* position that only digits and dots separate from a.
RunFrom(s, a) ==
    LET ends == {j \in a..Len(s) :
                    \A k \in a..j : IsDigit(CharAt(s, k)) \/ CharAt(s, k) = "."}
    IN SubSeq(s, a, CHOOSE j \in ends : \A e \in ends : e <= j)

\* The first maximal run of digits and dots that starts at the first digit.
FirstRun(s) ==
    IF DigitsOf(s) = {} THEN s
    ELSE RunFrom(s, CHOOSE i \in DigitsOf(s) : \A d \in DigitsOf(s) : i <= d)

(* C15: for every input text, extractVersion returns the maximal run of    *)
(* digits and dots that starts at the first digit of the input, and the    *)
(* input unchanged when it holds no digit; "1.2.3 (abcdef)" gives "1.2.3"  *)
(* and "no digits here" gives itself; the result is always a contiguous    *)
(* part of the input.                                                      *)
C15_ExtractsFirstRun ==
    Len(out) = 2 =>
        LET s == out[1][2]
            v == out[2][2]
        IN /\ v = FirstRun(s)
           /\ s = "1.2.3 (abcdef)" => v = "1.2.3"
           /\ s = "no digits here" => v = s
           /\ \E i \in 1..(Len(s) + 1), j \in 0..Len(s) : v = SubSeq(s, i, j)

\* A version was extracted from between other characters, dots inside it
\* and after it kept.
C15_Witness ==
    /\ Len(out) = 2
    /\ out[1][2] = "v1.2"
    /\ out[2][2] = "1.2"

----------------------------------------------------------------------------
(* What the claims about the order of a run read. *)

\* The positions of the titles among the report lines.
TitlesAt(o) == {i \in 1..Len(o) : o[i][1] = "STEP"}

\* The title has been printed.
Started(o, title) == \E i \in TitlesAt(o) : o[i][2] = title

\* The install commands among the events, by what they install.
InstallsScoop(e) == e[1] = "powershell" /\ e[3] = "-NoProfile"
InstallsWithScoop(e) == e[1] = "scoop" /\ e[3] = "install"
InstallsNode(e) == e[1] = "volta" /\ e[3] = "install"
ClonesLazyVim(e) == e[1] = "git" /\ e[3] = "clone"

(* C16: the pipeline makes one pass. At every section of a run the titles  *)
(* printed so far are the first titles of the declared order, each once; a *)
(* title is printed only after the step before it has reported an outcome; *)
(* the scoop install runs in a section entered after the Scoop step has    *)
(* started, the Node.js install after the Volta step, the LazyVim clone    *)
(* after the Git step; and no install command is invoked twice in a run.   *)
C16_SinglePassInOrder ==
    [][IsSectionStep =>
        LET titles == Tagged(out', "STEP")
            ev == NewEvents
        IN /\ Len(titles) <= Len(StepTitles)
           /\ titles = SubSeq(StepTitles, 1, Len(titles))
           /\ SubSeq(titles, 1, Len(Tagged(out, "STEP"))) = Tagged(out, "STEP")
           /\ \A a \in TitlesAt(out'), b \in TitlesAt(out') :
                 a < b => \E c \in (a + 1)..(b - 1) : out'[c][1] \in {"OK", "SKIP", "FAIL"}
           /\ \A j \in 1..Len(ev) :
                 /\ InstallsWithScoop(ev[j]) => Started(out, StepTitles[2])
                 /\ InstallsNode(ev[j]) => Started(out, StepTitles[8])
                 /\ ClonesLazyVim(ev[j]) => Started(out, StepTitles[3])
           /\ \A j \in Installs(trace'), k \in Installs(trace') :
                 trace'[j] = trace'[k] => j = k
           /\ \A j \in Installs(trace'), k \in Installs(trace') :
                 (trace'[j][1] = trace'[k][1] /\ SubSeq(trace'[j], 3, Len(trace'[j]))
                                                 = SubSeq(trace'[k], 3, Len(trace'[k])))
                     => j = k]_vars

\* A run on a fresh machine has ended: every title was printed, and Scoop,
\* the font, Volta, Node.js and the LazyVim starter were installed.
C16_Witness ==
    /\ pc = "off"
    /\ exitCode = 0
    /\ Tagged(out, "STEP") = StepTitles
    /\ \E j \in 1..Len(trace) : InstallsScoop(trace[j]) /\ trace[j][2] = "ok"
    /\ \E j \in 1..Len(trace) : InstallsWithScoop(trace[j]) /\ trace[j][2] = "ok"
    /\ \E j \in 1..Len(trace) :
          trace[j] = <<"winget", "ok", "install", "--id", "Volta.Volta", "--exact",
                       "--accept-source-agreements", "--accept-package-agreements",
                       "--silent">>
    /\ \E j \in 1..Len(trace) : InstallsNode(trace[j]) /\ trace[j][2] = "ok"
    /\ \E j \in 1..Len(trace) : ClonesLazyVim(trace[j]) /\ trace[j][2] = "ok"

----------------------------------------------------------------------------
(* What the claims about the verification report read. *)

\* The verification phase, from its title to the end of the tool loop.
IsVerifyStep == IsSectionStep /\ pc = "verify"

\* Nothing but the report and the search path of the process has changed.
VerifyFrame ==
    /\ failures' = failures
    /\ files' = files
    /\ dirs' = dirs
    /\ persisted' = persisted
    /\ pkgs' = pkgs
    /\ buckets' = buckets
    /\ gitcfg' = gitcfg
    /\ exitCode' = exitCode

\* The report has one line per tool, NOT FOUND for the tools the search path
\* does not resolve, and no failure line.
VerifyReport ==
    /\ Tagged(NewOut, "FAIL") = <<>>
    /\ Len(Tagged(NewOut, "TOOL")) = Len(Tools)
    /\ \A i \in 1..Len(Tools) :
          (Tagged(NewOut, "TOOL")[i] = Tools[i][1] \o " NOT FOUND")
              <=> ~commandExists(World', Tools[i][1])

(* C17, as stated: during the verification phase nothing is appended to    *)
(* the failure log, no file or directory changes, no process-wide state    *)
(* changes, the search path of the process included, and a tool that is    *)
(* not resolvable is reported as NOT FOUND, not as a failure.              *)
C17_VerificationChangesNothing ==
    [][IsVerifyStep => (VerifyFrame /\ VerifyReport /\ envPath' = envPath)]_vars

(* C17: during the verification phase nothing is appended to the failure   *)
(* log, no file or directory changes and no state of the machine changes,  *)
(* but the search path of the process is refreshed before the tools are    *)
(* probed: it becomes the persisted one when the refresh succeeds and      *)
(* stays as it was otherwise; a tool the refreshed path does not resolve   *)
(* is reported as NOT FOUND, not as a failure.                             *)
C17_VerificationOnlyRefreshesPath ==
    [][IsVerifyStep =>
        /\ VerifyFrame
        /\ VerifyReport
        /\ Cardinality(Refreshes(NewEvents)) = 1
        /\ \A j \in Refreshes(NewEvents) :
              envPath' = IF NewEvents[j][2] = "ok" THEN persisted ELSE envPath]_vars

\* The report lists git with its version in a run whose git defaults step
\* did not find git: the search path changed in the verification phase.
C17_Witness ==
    /\ pc = "summary"
    /\ \E i \in 1..Len(failures) : failures[i] = "Git not found - skipping git config"
    /\ \E i \in 1..Len(out) : out[i] = <<"TOOL", "git " \o ToolVersions[1]>>

----------------------------------------------------------------------------
(* C18: no deployConfigFile call loses the previous content of its target: *)
(* whenever a call has changed the content of a target that existed, the   *)
(* final copy having succeeded or failed partway, a backup file of the     *)
(* target holds exactly the content the target had before the call.        *)
C18_PriorContentKept ==
    [][(/\ IsDeployStep
        /\ TargetOf(cur) \in DOMAIN files
        /\ \/ TargetOf(cur) \notin DOMAIN files'
           \/ files'[TargetOf(cur)] # files[TargetOf(cur)]) =>
        \E p \in BackupsOf(files', TargetOf(cur)) :
            files'[p] = files[TargetOf(cur)]]_vars

----------------------------------------------------------------------------
(* What the claims about git's configuration read. *)

\* The positions of the git config commands among the events, and of those
\* that write the key.
GitConfigs(tr) == {j \in 1..Len(tr) : tr[j][1] = "git" /\ tr[j][3] = "config"}

GitWrites(tr, key) == {j \in GitConfigs(tr) : tr[j][5] = key}

----------------------------------------------------------------------------
(* What the claims about the LazyVim step read. *)

\* The files and directories of the Neovim configuration.
NvimConfig(fs, ds) ==
    [files |-> [q \in {f \in DOMAIN fs : IsUnder(f, nvimConfigDir)} |-> fs[q]],
     dirs |-> {d \in ds : IsUnder(d, nvimConfigDir)}]

\* The positions of the events of the kind among the events.
EventsOf(tr, cmd, arg) == {j \in 1..Len(tr) : tr[j][1] = cmd /\ (arg = "" \/ tr[j][3] = arg)}

(* C20: the LazyVim step never destroys an existing Neovim configuration.  *)
(* When the marker file exists or git is not resolvable, the configuration *)
(* directory is left as it is and no clone is attempted. Otherwise a       *)
(* configuration directory that exists has been moved to nvim.bak.<time>   *)
(* before the clone command is invoked, every file of it is found there    *)
(* with its content after the step, and the .git directory is removed only *)
(* after a clone that succeeded.                                           *)
C20_ConfigMovedBeforeClone ==
    [][(IsSectionStep /\ pc = "lazyvim") =>
        LET ev == NewEvents
            clones == EventsOf(ev, "git", "clone")
            renames == EventsOf(ev, "os.Rename", "")
            removes == EventsOf(ev, "os.RemoveAll", "")
            backupDir == Suffixed(nvimConfigDir, ".bak." \o FormatTimestamp(now))
        IN IF StatOk(World, lazyVimMarker) \/ ~commandExists(World, "git")
               THEN /\ clones = {}
                    /\ NvimConfig(files', dirs') = NvimConfig(files, dirs)
           ELSE /\ Cardinality(clones) = 1
                /\ StatOk(World, nvimConfigDir) =>
                      /\ \E j \in renames : \E k \in clones : j < k /\ ev[j][2] = "ok"
                      /\ \A q \in DOMAIN files :
                            IsUnder(q, nvimConfigDir) =>
                                /\ Rebased(q, nvimConfigDir, backupDir) \in DOMAIN files'
                                /\ files'[Rebased(q, nvimConfigDir, backupDir)] = files[q]
                /\ \A r \in removes : \E k \in clones : k < r /\ ev[k][2] = "ok"]_vars

====
